---- MODULE Spec2Model ----
(***************************************************************************)
(* Browser session lifecycle of twpost: the port probe, the display        *)
(* resolver, the session launcher and the readiness gate, as implemented   *)
(* by chrome_utils.ensure_chrome_cdp and by twpost.ensure_chrome_cdp.      *)
(*                                                                         *)
(* One step of a call is one external interaction of the code (a socket    *)
(* connect, a subprocess, a file removal).  The environment (browser and   *)
(* Xvfb processes, the listener on the debug port, the lock files) moves   *)
(* on its own between the steps.                                           *)
(***************************************************************************)
EXTENDS Integers, Sequences, FiniteSets, TLC

(***************************************************************************)
(* Bounds of the model.                                                    *)
(***************************************************************************)
MaxCalls == 2        \* ensure_chrome_cdp calls made by one OS process
MaxEntries == 3      \* well-formed tweet entries in one response body
MaxParses == 3       \* calls of parse_twitter_response in one run
MaxExchanges == 2    \* responses the page delivers to handle_response

(***************************************************************************)
(* Program constants.                                                      *)
(***************************************************************************)
CDP_PORT == 9222
XVFB_DISPLAY == ":99"
ReadyAttempts == 5       \* chrome_utils: for _ in range(5)
TwpostAttempts == 3      \* twpost:       for _ in range(3)

None == "None"           \* Python's None
NoProc == [pid |-> -1, bin |-> None, datadir |-> "", cdp |-> FALSE]
mac_path == "/Applications/Google Chrome.app/Contents/MacOS/Google Chrome"
Names == <<"google-chrome", "google-chrome-stable", "chromium-browser", "chromium">>
NameSet == {Names[i] : i \in 1..Len(Names)}
Bins == NameSet \cup {mac_path}

BotDir == "~/.chrome_bot"        \* Path.home() / ".chrome_bot"
TwDir == "twpost/.chrome"        \* Path(__file__).parent / ".chrome"
NoDir == ""                      \* a browser started without --user-data-dir
DataDirs == {BotDir, TwDir}

\* what shutil.which can find on the machines considered: nothing, any one
\* candidate, Chrome next to Chromium, all four
PathChoices ==
    {{}} \cup {{n} : n \in NameSet} \cup {{"google-chrome", "chromium"}, NameSet}

Launchers == {"chrome_utils", "twpost"}
Displays == {"", ":0", XVFB_DISPLAY}
HeadlessValues == {"", "0", "1", "true", "yes", "TRUE"}

\* errno values connect_ex can hand back
ECONNREFUSED == 111     \* nothing listens on the port
EAGAIN == 11            \* the 1s timeout of the socket ran out

VARIABLES
    is_mac,        \* platform.system() == "Darwin"
    mac_exists,    \* Path(mac_path).exists()
    on_path,       \* the names shutil.which resolves
    procs,         \* running browser processes
    listener,      \* the process accepting on CDP_PORT, NoProc when none
    next_pid,      \* number of the next browser process started by a launcher
    xvfb,          \* an Xvfb server is running for XVFB_DISPLAY
    lock,          \* profile directory -> SingletonLock file exists
    calls,         \* caller -> state of its ensure_chrome_cdp activity
    scripts,       \* caller -> state of the script it runs
    response_body,   \* the body parse_twitter_response was last given
    tweets,          \* the list `tweets` of parse_twitter_response
    returned,        \* what the last call of parse_twitter_response gave
    captured_tweets, \* the module-level list of tw_xhr_test
    first,           \* body -> what the first call on it returned
    nparsed,         \* calls of parse_twitter_response so far
    nexchanges,      \* responses handled so far
    exchange         \* the response handle_response was last given

hostVars == <<is_mac, mac_exists, on_path>>
extractVars == <<response_body, tweets, returned, captured_tweets, first,
                 nparsed, nexchanges, exchange>>
envVars == <<hostVars, scripts, extractVars>>
launcherVars == <<procs, listener, next_pid, xvfb, lock, calls>>
vars == <<is_mac, mac_exists, on_path, procs, listener, next_pid, xvfb, lock,
          calls, scripts, response_body, tweets, returned, captured_tweets,
          first, nparsed, nexchanges, exchange>>

(***************************************************************************)
(* Pure helpers.                                                           *)
(***************************************************************************)

\* str.lower() on the values CHROME_HEADLESS takes in the model
Lower(s) == IF s = "TRUE" THEN "true" ELSE s

\* `pattern in s` for the patterns pkill is given and the strings that make
\* up a browser command line
Contains(pattern, s) ==
    CASE pattern = "google-chrome" -> s \in {"google-chrome", "google-chrome-stable"}
      [] pattern = "Google Chrome" -> s = mac_path
      [] pattern = "chrome"        -> s \in {"google-chrome", "google-chrome-stable", BotDir, TwDir}
      [] OTHER -> FALSE

\* pkill -f: the pattern is matched against the full command line
Matches(pattern, p) == Contains(pattern, p.bin) \/ Contains(pattern, p.datadir)

RECURSIVE FirstOnPath(_, _)
FirstOnPath(i, path) ==
    IF i > Len(Names) THEN None
    ELSE IF Names[i] \in path THEN Names[i]
    ELSE FirstOnPath(i + 1, path)

find_chrome ==
    IF is_mac /\ mac_exists THEN mac_path ELSE FirstOnPath(1, on_path)

\* the probe written with socket.connect, which raises on every failure
is_port_open_connect(errno) == [raised |-> (errno # 0), ret |-> TRUE]

\* socket.connect_ex gives back an errno instead of raising
is_port_open(errno) == [raised |-> FALSE, ret |-> (errno = 0)]

\* what connect_ex("127.0.0.1", CDP_PORT) can give back in the current state
ConnectOutcomes == IF listener # NoProc THEN {0} ELSE {ECONNREFUSED, EAGAIN}

max_attempts(l) == IF l = "chrome_utils" THEN ReadyAttempts ELSE TwpostAttempts

kill_pattern(l) ==
    IF l = "twpost" THEN "chrome"
    ELSE IF is_mac THEN "Google Chrome" ELSE "google-chrome"

data_dir(l) == IF l = "chrome_utils" THEN BotDir ELSE TwDir

headless_mode(v) == Lower(v) \in {"1", "true", "yes"}

\* the flag decided by the override alone
has_headless_flag_override_only(v, display) == headless_mode(v)

has_headless_flag(v, display) == headless_mode(v) \/ (display = XVFB_DISPLAY)

chrome_args(l, bin, v, display) ==
    IF l = "twpost"
    THEN <<"google-chrome", "--remote-debugging-port", "--user-data-dir">>
    ELSE <<bin, "--remote-debugging-port", "--user-data-dir">>
         \o (IF has_headless_flag(v, display) THEN <<"--headless=new">> ELSE <<>>)

(***************************************************************************)
(* State of one caller.                                                    *)
(***************************************************************************)
IdleCall(d) ==
    [pc |-> "idle", launcher |-> "chrome_utils", ncalls |-> 0,
     DISPLAY |-> d,             \* os.environ["DISPLAY"], "" when unset
     declared |-> d,            \* DISPLAY as the process was started with
     chrome_bin |-> None, display |-> None, real |-> FALSE,
     CHROME_HEADLESS |-> "", args |-> <<>>, env_display |-> None,
     child |-> NoProc, child_headless |-> FALSE, polls |-> 0, open |-> FALSE,
     grace |-> 0,               \* time.sleep(2) after a successful poll
     result |-> "pending", error |-> None, log |-> <<>>]

(***************************************************************************)
(* The timeline extractor of tw_xhr_test.                                  *)
(*                                                                         *)
(* JSON values carry their type: objects are sequences of <<key, value>>   *)
(* pairs in the order of the text, arrays are sequences, numbers keep      *)
(* their digits.  An exception travelling up is the value Exc(name).       *)
(***************************************************************************)
Str(s) == [t |-> "string", v |-> s]
Num(s) == [t |-> "number", v |-> s]
Null == [t |-> "null", v |-> ""]
Bool(b) == [t |-> "bool", v |-> IF b THEN "true" ELSE "false"]
Obj(pairs) == [t |-> "object", v |-> pairs]
Arr(items) == [t |-> "array", v |-> items]
Exc(name) == [t |-> "raise", v |-> name]
EmptyObj == Obj(<<>>)
EmptyArr == Arr(<<>>)

\* one pair of an object when `keep`, none otherwise
Field(k, x, keep) == IF keep THEN <<<<k, x>>>> ELSE <<>>

HasKey(d, k) == \E i \in 1..Len(d.v) : d.v[i][1] = k

\* d.get(k, default): AttributeError on anything but a dict
get(d, k, default) ==
    CASE d.t = "raise" -> d
      [] d.t # "object" -> Exc("AttributeError")
      [] HasKey(d, k) -> d.v[CHOOSE i \in 1..Len(d.v) : d.v[i][1] = k][2]
      [] OTHER -> default

\* truth value of a Python object
bool(x) ==
    CASE x.t \in {"object", "array"} -> x.v # <<>>
      [] x.t = "string" -> x.v # ""
      [] x.t = "number" -> x.v # "0"
      [] x.t = "bool" -> x.v = "true"
      [] OTHER -> FALSE

\* a test that looks at the type of the value only
eq_any_string(x, s) == x.t = "string"

\* x == s for a string literal s
eq(x, s) == x.t = "string" /\ x.v = s

\* `k in s` for the top-level strings of the model
str_in(k, s) == s \in {k, "metadata"}

\* `k in x`: a key of a dict, an element of a list, a substring of a str,
\* TypeError for None and numbers
contains(k, x) ==
    CASE x.t = "object" -> Bool(HasKey(x, k))
      [] x.t = "array" -> Bool(\E i \in 1..Len(x.v) : eq(x.v[i], k))
      [] x.t = "string" -> Bool(str_in(k, x.v))
      [] OTHER -> Exc("TypeError")

\* what a for loop goes through: the elements of a list, the keys of a
\* dict, the characters of a str (all of them str), TypeError otherwise
iter(x) ==
    CASE x.t = "raise" -> x
      [] x.t = "array" -> x
      [] x.t = "object" -> Arr([i \in 1..Len(x.v) |-> Str(x.v[i][1])])
      [] x.t = "string" -> Arr(IF x.v = "" THEN <<>> ELSE <<Str(x.v)>>)
      [] OTHER -> Exc("TypeError")

\* a value as it stands in an extracted record
Leaf(x) ==
    [t |-> x.t,
     v |-> IF x.t \in {"string", "number", "null", "bool"} THEN x.v ELSE "..."]

\* ---- response bodies ----
\* A body is described by the JSON document its text denotes; "malformed"
\* is a text json.loads rejects.
Texts == {"hello", "world"}
Digits == <<"1", "2", "3", "4", "5", "6", "7", "8", "9">>
NoDefect == "none"

\* an entry that lacks one key of the path to the tweet, its text or its author
MissingKeyEntries ==
    {"no_content", "no_entryType", "no_itemContent", "no_itemType",
     "no_tweet_results", "no_result", "no_typename", "no_legacy",
     "no_full_text", "no_core", "no_user_results", "no_user_result",
     "no_user_legacy"}

\* an entry of another kind, a tweet without text, a null where an object
\* is expected
OtherEntries ==
    {"cursor", "not_a_tweet", "tombstone", "empty_text", "null_content"}

EntryDefects == MissingKeyEntries \cup OtherEntries

\* an instruction that lacks a key, or is of another type
MissingKeyInstructions == {"instr_no_type", "instr_no_entries"}
InstrDefects == MissingKeyInstructions \cup {"instr_other_type"}

Nests == {"home_timeline_urt", "timeline_urt", "direct", "both", "home_empty"}

\* documents that are not a timeline payload
Tops ==
    {"malformed", "array", "array_data", "string", "string_data", "number",
     "null", "no_data", "data_array", "data_null", "data_string"}

Plain(top) ==
    [top |-> top, nest |-> "direct", good |-> <<>>, defect |-> NoDefect,
     at |-> 0, cut |-> -1]

SeqsUpTo(S, n) == UNION {[1..k -> S] : k \in 0..n}

\* the entries of a payload in the order of the text
EntryList(p) ==
    LET g == [i \in 1..Len(p.good) |->
                 [kind |-> "good", text |-> p.good[i], id |-> Digits[i]]]
    IN IF p.defect \in EntryDefects
       THEN SubSeq(g, 1, p.at - 1)
            \o <<[kind |-> p.defect, text |-> "lost", id |-> "9"]>>
            \o SubSeq(g, p.at, Len(g))
       ELSE g

\* a payload: the well-formed tweets `good`, at most one defective entry or
\* instruction put in front of position `at`, the entries in one instruction
\* (cut = -1) or split after the first `cut` of them into two
Payload(n, g, d, a, c) ==
    [top |-> "payload", nest |-> n, good |-> g, defect |-> d, at |-> a, cut |-> c]

WellFormed(p) ==
    /\ p.top = "payload"
    /\ (p.defect = NoDefect) <=> (p.at = 0)
    /\ p.at <= Len(p.good) + 1
    /\ p.defect \in InstrDefects => p.cut = -1
    /\ p.cut <= Len(EntryList(p))

\* the entry `e` of a payload
Entry(e) ==
    LET k == e.kind
        id == e.id
        user_legacy == Obj(<<<<"name", Str("Ann")>>, <<"screen_name", Str("ann")>>>>)
        user_result == Obj(Field("legacy", user_legacy, k # "no_user_legacy"))
        user_results == Obj(Field("result", user_result, k # "no_user_result"))
        core == Obj(Field("user_results", user_results, k # "no_user_results"))
        legacy ==
            Obj(Field("full_text", Str(IF k = "empty_text" THEN "" ELSE e.text),
                      k # "no_full_text")
                \o <<<<"created_at", Str("Mon Nov 02")>>,
                     <<"favorite_count", Num("5")>>,
                     <<"retweet_count", Num("2")>>,
                     <<"id_str", Str(id)>>>>)
        result ==
            Obj(Field("__typename",
                      Str(IF k = "tombstone" THEN "TweetTombstone" ELSE "Tweet"),
                      k # "no_typename")
                \o Field("core", core, k # "no_core")
                \o Field("legacy", legacy, k # "no_legacy"))
        tweet_results == Obj(Field("result", result, k # "no_result"))
        item_content ==
            Obj(Field("itemType",
                      Str(IF k = "not_a_tweet" THEN "TimelineUser" ELSE "TimelineTweet"),
                      k # "no_itemType")
                \o Field("tweet_results", tweet_results, k # "no_tweet_results"))
        content ==
            Obj(Field("entryType",
                      Str(IF k = "cursor" THEN "TimelineTimelineCursor"
                          ELSE "TimelineTimelineItem"),
                      k # "no_entryType")
                \o Field("itemContent", item_content, k # "no_itemContent"))
    IN Obj(<<<<"entryId", Str(id)>>>>
           \o Field("content", IF k = "null_content" THEN Null ELSE content,
                    k # "no_content"))

\* entries lo..hi of a payload as JSON
EntriesJson(es, lo, hi) ==
    Arr([i \in 1..(IF hi >= lo THEN hi - lo + 1 ELSE 0) |-> Entry(es[lo + i - 1])])

AddEntries(es, lo, hi) ==
    Obj(<<<<"type", Str("TimelineAddEntries")>>,
          <<"entries", EntriesJson(es, lo, hi)>>>>)

\* an entry that is not among the entries of the payload
Stray == [kind |-> "good", text |-> "stray", id |-> "8"]

DefectiveInstruction(d) ==
    Obj(Field("type", Str(IF d = "instr_other_type" THEN "TimelinePinEntry"
                          ELSE "TimelineAddEntries"), d # "instr_no_type")
        \o Field("entries", Arr(<<Entry(Stray)>>), d # "instr_no_entries"))

Instructions(p) ==
    LET es == EntryList(p)
        n == Len(es)
    IN CASE p.defect \in InstrDefects ->
              Arr(<<AddEntries(es, 1, p.at - 1), DefectiveInstruction(p.defect),
                    AddEntries(es, p.at, n)>>)
         [] p.cut = -1 -> Arr(<<AddEntries(es, 1, n)>>)
         [] OTHER -> Arr(<<AddEntries(es, 1, p.cut), AddEntries(es, p.cut + 1, n)>>)

Timeline(p) == Obj(<<<<"instructions", Instructions(p)>>>>)

OtherTimeline ==
    Obj(<<<<"instructions",
            Arr(<<Obj(<<<<"type", Str("TimelineAddEntries")>>,
                        <<"entries", Arr(<<Entry(Stray)>>)>>>>)>>)>>>>)

\* the value under data.home
Nested(p) ==
    CASE p.nest = "home_timeline_urt" -> Obj(<<<<"home_timeline_urt", Timeline(p)>>>>)
      [] p.nest = "timeline_urt" -> Obj(<<<<"timeline_urt", Timeline(p)>>>>)
      [] p.nest = "both" ->
           Obj(<<<<"home_timeline_urt", Timeline(p)>>, <<"timeline_urt", OtherTimeline>>>>)
      [] p.nest = "home_empty" ->
           Obj(<<<<"home_timeline_urt", EmptyObj>>, <<"timeline_urt", Timeline(p)>>>>)
      [] OTHER -> Timeline(p)

\* the document a body denotes
Document(p) ==
    CASE p.top = "array" -> Arr(<<Str("hello")>>)
      [] p.top = "array_data" -> Arr(<<Str("data")>>)
      [] p.top = "string" -> Str("hello")
      [] p.top = "string_data" -> Str("metadata")
      [] p.top = "number" -> Num("5")
      [] p.top = "null" -> Null
      [] p.top = "no_data" -> Obj(<<<<"errors", EmptyArr>>>>)
      [] p.top = "data_array" -> Obj(<<<<"data", Arr(<<Str("hello")>>)>>>>)
      [] p.top = "data_null" -> Obj(<<<<"data", Null>>>>)
      [] p.top = "data_string" -> Obj(<<<<"data", Str("hello")>>>>)
      [] OTHER -> Obj(<<<<"data", Obj(<<<<"viewer", Str("me")>>, <<"home", Nested(p)>>>>)>>>>)

\* json.loads(response_body)
json_loads(p) == IF p.top = "malformed" THEN Exc("JSONDecodeError") ELSE Document(p)

\* ---- parse_twitter_response ----
\* the local list and the exception on its way up, None when there is none
Acc(list, exc) == [tweets |-> list, exc |-> exc]

\* lines 52-75: the record of an entry, Null when a test of the chain
\* fails, the exception when an access raises
entry_tweet(entry) ==
    LET content == get(entry, "content", EmptyObj)
        entry_type == get(content, "entryType", Null)
        item_content == get(content, "itemContent", EmptyObj)
        item_type == get(item_content, "itemType", Null)
        tweet_results == get(item_content, "tweet_results", EmptyObj)
        result == get(tweet_results, "result", EmptyObj)
        typename == get(result, "__typename", Null)
        legacy == get(result, "legacy", EmptyObj)
        user == get(get(get(get(result, "core", EmptyObj), "user_results", EmptyObj),
                        "result", EmptyObj), "legacy", EmptyObj)
        full_text == get(legacy, "full_text", Str(""))
        name == get(user, "name", Str(""))
    IN CASE entry_type.t = "raise" -> entry_type
         [] ~eq(entry_type, "TimelineTimelineItem") -> Null
         [] item_type.t = "raise" -> item_type
         [] ~eq(item_type, "TimelineTweet") -> Null
         [] typename.t = "raise" -> typename
         [] ~eq(typename, "Tweet") -> Null
         [] name.t = "raise" -> name
         [] full_text.t = "raise" -> full_text
         [] OTHER ->
              [t |-> "tweet",
               v |-> [text |-> Leaf(full_text),
                      user_name |-> Leaf(name),
                      screen_name |-> Leaf(get(user, "screen_name", Str(""))),
                      created_at |-> Leaf(get(legacy, "created_at", Str(""))),
                      favorite_count |-> Leaf(get(legacy, "favorite_count", Num("0"))),
                      retweet_count |-> Leaf(get(legacy, "retweet_count", Num("0"))),
                      id |-> Leaf(get(legacy, "id_str", Str("")))]]

\* every record is kept, with or without text
keeps_all(tweet) == TRUE

\* if tweet['text']
keeps(tweet) == tweet.text.t = "string" /\ tweet.text.v # ""

\* the new record put in front of the list
list_append_front(list, tweet) == <<tweet>> \o list

\* tweets.append(tweet)
list_append(list, tweet) == Append(list, tweet)

\* lines 76-77: the record `r` of an entry goes to the list, an exception
\* ends the traversal
add_tweet(r, acc) ==
    CASE r.t = "raise" -> Acc(acc.tweets, r.v)
      [] r.t = "tweet" /\ keeps(r.v) -> Acc(list_append(acc.tweets, r.v), None)
      [] OTHER -> acc

\* lines 51-77, the body of `for entry in entries`
entry_body(entry, acc) == add_tweet(entry_tweet(entry), acc)

RECURSIVE for_entries(_, _, _)
for_entries(entries, i, acc) ==
    IF acc.exc # None \/ i > Len(entries) THEN acc
    ELSE for_entries(entries, i + 1, entry_body(entries[i], acc))

\* lines 47-77: the entries of an instruction of type `instr_type`
add_entries(instr_type, entries, acc) ==
    CASE instr_type.t = "raise" -> Acc(acc.tweets, instr_type.v)
      [] ~eq(instr_type, "TimelineAddEntries") -> acc
      [] entries.t = "raise" -> Acc(acc.tweets, entries.v)
      [] OTHER -> for_entries(entries.v, 1, acc)

\* lines 45-77, the body of `for instruction in instructions`
instruction_body(instruction, acc) ==
    add_entries(get(instruction, "type", Null),
                iter(get(instruction, "entries", EmptyArr)), acc)

RECURSIVE for_instructions(_, _, _)
for_instructions(instructions, i, acc) ==
    IF acc.exc # None \/ i > Len(instructions) THEN acc
    ELSE for_instructions(instructions, i + 1,
                          instruction_body(instructions[i], acc))

\* only the first name is looked for
timeline_home_only(value) ==
    LET home == get(value, "home_timeline_urt", Null)
    IN IF bool(home) THEN home ELSE value

\* value.get('home_timeline_urt') or value.get('timeline_urt') or value
timeline_of(value) ==
    LET home == get(value, "home_timeline_urt", Null)
        urt == get(value, "timeline_urt", Null)
    IN IF bool(home) THEN home ELSE IF bool(urt) THEN urt ELSE value

\* lines 44-77: the loop over `instructions`
add_instructions(instructions, acc) ==
    IF instructions.t = "raise" THEN Acc(acc.tweets, instructions.v)
    ELSE for_instructions(instructions.v, 1, acc)

\* lines 39-77, the body of `for key, value in ...items()`
value_body(value, acc) ==
    IF value.t # "object" THEN acc
    ELSE add_instructions(iter(get(timeline_of(value), "instructions", EmptyArr)),
                          acc)

RECURSIVE for_items(_, _, _)
for_items(pairs, i, acc) ==
    IF acc.exc # None \/ i > Len(pairs) THEN acc
    ELSE for_items(pairs, i + 1, value_body(pairs[i][2], acc))

\* the list of an earlier call used again
new_tweets_shared(previous) == previous

\* tweets = []
new_tweets(previous) == <<>>

\* only the error of json.loads is caught
caught_decode_only(exc) == exc = "JSONDecodeError"

\* except Exception
caught(exc) == TRUE

\* lines 34-77: the traversal of the document `data`, `list` being the new
\* list; "return" marks the early return of line 35
traverse(data, has_data, items, list) ==
    CASE has_data.t = "raise" -> Acc(list, has_data.v)
      [] ~bool(has_data) -> Acc(list, "return")
      [] items.t # "object" -> Acc(list, "AttributeError")
      [] OTHER -> for_items(items.v, 1, Acc(list, None))

\* lines 30-31: json.loads, then the new list
load(data, list, previous) ==
    IF data.t = "raise" THEN Acc(previous, data.v)
    ELSE traverse(data, contains("data", data), get(data, "data", EmptyObj), list)

\* lines 79-84: the list `tweets` at the end, whether an exception leaves
\* the function, and the list returned
finish(acc) ==
    CASE acc.exc = None -> [tweets |-> acc.tweets, raised |-> FALSE, value |-> acc.tweets]
      [] acc.exc = "return" \/ caught(acc.exc) ->
           [tweets |-> acc.tweets, raised |-> FALSE, value |-> <<>>]
      [] OTHER -> [tweets |-> acc.tweets, raised |-> TRUE, value |-> <<>>]

\* parse_twitter_response(response_body), `previous` being the list the
\* call before left
parse_twitter_response(p, previous) ==
    finish(load(json_loads(p), new_tweets(previous), previous))

\* ---- handle_response ----
TWITTER_API_PATTERNS ==
    <<"api.twitter.com", "HomeTimeline", "HomeLatestTimeline", "UserTweets",
      "TweetDetail">>

Urls ==
    {"https://x.com/i/api/graphql/q1/HomeTimeline",
     "https://api.twitter.com/1.1/jot/client_event.json",
     "https://x.com/i/api/graphql/q2/TweetDetail",
     "https://abs.twimg.com/responsive-web/main.js",
     "https://x.com/home"}

\* `pattern in url` for the URLs of the model
url_contains(pattern, url) ==
    CASE pattern = "api.twitter.com" ->
              url = "https://api.twitter.com/1.1/jot/client_event.json"
      [] pattern = "HomeTimeline" -> url = "https://x.com/i/api/graphql/q1/HomeTimeline"
      [] pattern = "TweetDetail" -> url = "https://x.com/i/api/graphql/q2/TweetDetail"
      [] OTHER -> FALSE

\* any(pattern in url for pattern in TWITTER_API_PATTERNS)
should_capture(url) ==
    \E i \in 1..Len(TWITTER_API_PATTERNS) : url_contains(TWITTER_API_PATTERNS[i], url)

\* response.headers.get('content-type', '')
ContentTypes == {"application/json; charset=utf-8", "application/javascript", ""}

\* 'json' in content_type
is_json(content_type) == content_type = "application/json; charset=utf-8"

\* the bodies the page delivers in a run
StreamBodies ==
    <<Plain("malformed"),
      Plain("no_data"),
      Payload("home_timeline_urt", <<"hello", "world">>, NoDefect, 0, -1),
      Payload("direct", <<"world">>, "null_content", 2, -1),
      Payload("timeline_urt", <<"hello">>, "no_core", 1, 1)>>

BodyIndex(p) ==
    IF \E i \in 1..Len(StreamBodies) : StreamBodies[i] = p
    THEN CHOOSE i \in 1..Len(StreamBodies) : StreamBodies[i] = p
    ELSE 0

\* no call yet on a body: the number of calls, the list the first returned
NotCalled == [n |-> 0, value |-> <<>>]

\* no response yet
NoExchange == [url |-> "", content_type |-> "", text |-> -1]

\* the accumulator replaced by the list of the response
list_assign(list, more) == more

\* captured_tweets.extend(tweets)
list_extend(list, more) == list \o more

\* the extractor before its first call, `p` the body at hand
InitExtractor(p) ==
    /\ response_body = p
    /\ tweets = <<>>
    /\ returned = [raised |-> FALSE, value |-> <<>>]
    /\ captured_tweets = <<>>
    /\ first = [i \in 1..Len(StreamBodies) |-> NotCalled]
    /\ nparsed = 0
    /\ nexchanges = 0
    /\ exchange = NoExchange

\* a script that has not started
NoScript ==
    [name |-> None, pc |-> "idle", attach |-> "no", page |-> FALSE,
     fail |-> None, ret |-> "pending", exit |-> -1]

\* the executables installed on the machine
Installed == on_path \cup (IF is_mac /\ mac_exists THEN {mac_path} ELSE {})

\* the browser that can be alive before the first call: one started by the
\* user (no profile argument, no debug port) or one left by an earlier run of
\* the launcher; pid 0 marks it
ExternalProcs ==
    {[pid |-> 0, bin |-> b, datadir |-> d, cdp |-> (d # NoDir)] :
        b \in Installed, d \in {NoDir, BotDir}}

Init ==
    /\ is_mac \in BOOLEAN
    /\ mac_exists \in (IF is_mac THEN BOOLEAN ELSE {FALSE})
    /\ on_path \in PathChoices
    /\ procs \in {{}} \cup {{p} : p \in ExternalProcs}
    /\ listener \in {NoProc} \cup {q \in procs : q.cdp}
    /\ next_pid = 1
    /\ xvfb \in BOOLEAN
    /\ \E b \in BOOLEAN : lock = [d \in DataDirs |-> b]
    /\ \E d \in Displays : calls = [c \in {1} |-> IdleCall(d)]
    /\ scripts = [c \in {1} |-> NoScript]
    /\ InitExtractor(Plain("no_data"))

\* the locals of a call are gone when it is over; the process keeps its
\* environment and its count of calls
Reset(c) ==
    [IdleCall(c.DISPLAY) EXCEPT !.ncalls = c.ncalls, !.declared = c.declared]

Finish(c, res, err) == [c EXCEPT !.pc = "done", !.result = res, !.error = err]
Raise(c, exc) == Finish(c, "raised", exc)

(***************************************************************************)
(* ensure_chrome_cdp, step by step.                                        *)
(***************************************************************************)

\* a script calls ensure_chrome_cdp
Enter(c, l) ==
    [Reset(c) EXCEPT !.pc = "probe", !.launcher = l, !.ncalls = c.ncalls + 1]

Call(self) ==
    /\ calls[self].pc = "idle"
    /\ calls[self].ncalls < MaxCalls
    /\ \E l \in Launchers : calls' = [calls EXCEPT ![self] = Enter(calls[self], l)]
    /\ UNCHANGED <<envVars, procs, listener, next_pid, xvfb, lock>>

\* the call has returned (or raised) to the script
Return(self) ==
    /\ calls[self].pc = "done"
    /\ calls' = [calls EXCEPT ![self] = Reset(calls[self])]
    /\ UNCHANGED <<envVars, procs, listener, next_pid, xvfb, lock>>

\* the fast path left out: the launcher goes on although the port is open
after_probe_no_fast_path(c, r) ==
    IF r.raised THEN Raise(c, "OSError")
    ELSE IF c.launcher = "twpost" THEN [c EXCEPT !.pc = "kill"]
    ELSE [c EXCEPT !.pc = "find"]

\* what follows the first probe: return True, or go on to (re)start the browser
after_probe(c, r) ==
    IF r.raised THEN Raise(c, "OSError")
    ELSE IF r.ret THEN Finish(c, "True", None)
    ELSE IF c.launcher = "twpost" THEN [c EXCEPT !.pc = "kill"]
    ELSE [c EXCEPT !.pc = "find"]

\* if is_port_open(CDP_PORT): return True
Probe(self) ==
    /\ calls[self].pc = "probe"
    /\ \E e \in ConnectOutcomes :
         LET r == is_port_open(e)
             c == [calls[self] EXCEPT !.open = r.ret,
                                      !.log = Append(@, "is_port_open")]
         IN calls' = [calls EXCEPT ![self] = after_probe(c, r)]
    /\ UNCHANGED <<envVars, procs, listener, next_pid, xvfb, lock>>

\* chrome_bin = find_chrome(); if not chrome_bin: return False
Find(self) ==
    /\ calls[self].pc = "find"
    /\ LET c == [calls[self] EXCEPT !.chrome_bin = find_chrome,
                                    !.log = Append(@, "find_chrome")]
       IN calls' = [calls EXCEPT ![self] =
              IF c.chrome_bin = None THEN Finish(c, "False", "ExecutableNotFound")
              ELSE IF is_mac THEN [c EXCEPT !.display = None, !.pc = "kill"]
              ELSE [c EXCEPT !.pc = "wake"]]
    /\ UNCHANGED <<envVars, procs, listener, next_pid, xvfb, lock>>

\* wake_screen(): every failure is caught inside, the result is ignored
WakeScreen(self) ==
    /\ calls[self].pc = "wake"
    /\ \E xset \in {"on", "off", "missing", "timeout"} :
         calls' = [calls EXCEPT ![self].pc = "display",
                                ![self].log = Append(@, "wake_screen")]
    /\ UNCHANGED <<envVars, procs, listener, next_pid, xvfb, lock>>

\* if has_real_display(): display = os.environ.get("DISPLAY")
HasRealDisplay(self) ==
    /\ calls[self].pc = "display"
    /\ LET d == calls[self].DISPLAY
           c == [calls[self] EXCEPT !.log = Append(@, "has_real_display")]
       IN IF d = XVFB_DISPLAY \/ d = ""
          THEN calls' = [calls EXCEPT ![self] = [c EXCEPT !.pc = "pgrep"]]
          ELSE \E xdpyinfo \in {"answers", "fails", "missing", "timeout"} :
                 calls' = [calls EXCEPT ![self] =
                    CASE xdpyinfo = "missing" -> Raise(c, "FileNotFoundError")
                      [] xdpyinfo = "timeout" -> Raise(c, "TimeoutExpired")
                      [] xdpyinfo = "answers" ->
                           [c EXCEPT !.real = TRUE, !.display = d, !.pc = "kill"]
                      [] OTHER -> [c EXCEPT !.pc = "pgrep"]]
    /\ UNCHANGED <<envVars, procs, listener, next_pid, xvfb, lock>>

\* pgrep -f "Xvfb :99": 0 when a process matches, 1 when none does
pgrep_returncode == IF xvfb THEN 0 ELSE 1

\* a scan whose result is not looked at
xvfb_found_never(returncode) == FALSE

\* if result.returncode == 0
xvfb_found(returncode) == returncode = 0

\* ensure_xvfb(), first half: pgrep -f "Xvfb :99"
XvfbScan(self) ==
    /\ calls[self].pc = "pgrep"
    /\ \E pgrep \in {"ran", "missing"} :
         LET c == [calls[self] EXCEPT !.log = Append(@, "pgrep")]
         IN calls' = [calls EXCEPT ![self] =
                IF pgrep = "missing" THEN Raise(c, "FileNotFoundError")
                ELSE IF xvfb_found(pgrep_returncode)
                THEN [c EXCEPT !.DISPLAY = XVFB_DISPLAY,
                               !.display = XVFB_DISPLAY, !.pc = "kill"]
                ELSE [c EXCEPT !.pc = "Xvfb"]]
    /\ UNCHANGED <<envVars, procs, listener, next_pid, xvfb, lock>>

\* ensure_xvfb(), second half: Popen(["Xvfb", ":99", ...]); sleep; return True
XvfbStart(self) ==
    /\ calls[self].pc = "Xvfb"
    /\ \E popen \in {"serves", "exits", "missing"} :
         LET c == calls[self]
         IN /\ popen = "serves" => ~xvfb
            /\ calls' = [calls EXCEPT ![self] =
                IF popen = "missing" THEN Raise(c, "FileNotFoundError")
                ELSE [c EXCEPT !.log = Append(@, "Xvfb"),
                               !.DISPLAY = XVFB_DISPLAY,
                               !.display = XVFB_DISPLAY, !.pc = "kill"]]
            /\ xvfb' = IF popen = "serves" THEN TRUE ELSE xvfb
    /\ UNCHANGED <<envVars, procs, listener, next_pid, lock>>

\* a kill that spares the browsers started by a launcher
pkill_9_external(pattern, ps) == {p \in ps : Matches(pattern, p) /\ p.pid = 0}

\* pkill -9 -f pattern: the processes it ends, among the processes ps
pkill_9(pattern, ps) == {p \in ps : Matches(pattern, p)}

\* subprocess.run(["pkill", "-9", "-f", pattern]); time.sleep(2)
Kill(self) ==
    /\ calls[self].pc = "kill"
    /\ \E pkill \in {"ran", "missing"} :
         LET c == calls[self]
             pat == kill_pattern(c.launcher)
             dead == pkill_9(pat, procs)
         IN IF pkill = "missing"
            THEN /\ calls' = [calls EXCEPT ![self] = Raise(c, "FileNotFoundError")]
                 /\ UNCHANGED <<procs, listener>>
            ELSE /\ calls' = [calls EXCEPT ![self] =
                        [c EXCEPT !.log = Append(@, "pkill"),
                                  !.pc = IF c.launcher = "twpost"
                                         THEN "launch" ELSE "unlink"]]
                 /\ procs' = procs \ dead
                 /\ listener' = IF listener \in dead THEN NoProc ELSE listener
    /\ UNCHANGED <<envVars, next_pid, xvfb, lock>>

\* singleton_lock.unlink(missing_ok=True)
Unlink(self) ==
    /\ calls[self].pc = "unlink"
    /\ calls' = [calls EXCEPT ![self].log = Append(@, "unlink"),
                              ![self].pc = "args"]
    /\ lock' = [lock EXCEPT ![BotDir] = FALSE]
    /\ UNCHANGED <<envVars, procs, listener, next_pid, xvfb>>

\* chrome_utils: headless_mode = os.environ.get("CHROME_HEADLESS", "").lower()
\* in (...); chrome_args = [...]; env = {**os.environ}; env["DISPLAY"] = display
BuildArgs(self) ==
    /\ calls[self].pc = "args"
    /\ \E v \in HeadlessValues :
         LET c == calls[self]
         IN calls' = [calls EXCEPT ![self] =
                [c EXCEPT !.CHROME_HEADLESS = v,
                          !.args = chrome_args(c.launcher, c.chrome_bin, v, c.display),
                          !.env_display = IF c.display # None
                                          THEN c.display ELSE c.DISPLAY,
                          !.pc = "launch"]]
    /\ UNCHANGED <<envVars, procs, listener, next_pid, xvfb, lock>>

\* subprocess.Popen(chrome_args, env=env); the argument list and the value
\* read from CHROME_HEADLESS are not used after the process has been started
Launch(self) ==
    /\ calls[self].pc = "launch"
    /\ LET c == calls[self]
           l == c.launcher
           a == IF l = "twpost" THEN chrome_args(l, None, "", None) ELSE c.args
           p == [pid |-> next_pid, bin |-> a[1],
                 datadir |-> data_dir(l), cdp |-> TRUE]
           h == \E i \in 1..Len(a) : a[i] = "--headless=new"
       IN IF a[1] \notin Installed
          THEN /\ calls' = [calls EXCEPT ![self] = Raise(c, "FileNotFoundError")]
               /\ UNCHANGED <<procs, next_pid, lock>>
          ELSE /\ calls' = [calls EXCEPT ![self] =
                      [c EXCEPT !.CHROME_HEADLESS = "", !.args = <<>>,
                                !.child = p, !.child_headless = h,
                                !.log = Append(@, "Popen"),
                                !.pc = "poll"]]
               /\ procs' = procs \cup {p}
               /\ next_pid' = next_pid + 1
               /\ lock' = [lock EXCEPT ![data_dir(l)] = TRUE]
    /\ UNCHANGED <<envVars, listener, xvfb>>

\* a gate that looks at the probe only once the attempts are used up
after_poll_late(c, r) ==
    IF r.raised THEN Raise(c, "OSError")
    ELSE IF c.polls < max_attempts(c.launcher) THEN c
    ELSE IF r.ret THEN Finish([c EXCEPT !.grace = @ + 1], "True", None)
    ELSE Finish(c, "False", "LaunchTimeout")

\* a gate that kills and launches again when the attempts are used up
after_poll_retry(c, r) ==
    IF r.raised THEN Raise(c, "OSError")
    ELSE IF r.ret THEN Finish([c EXCEPT !.grace = @ + 1], "True", None)
    ELSE IF c.polls >= max_attempts(c.launcher)
    THEN [c EXCEPT !.polls = 0, !.pc = "kill"]
    ELSE c

\* a gate that takes the browser for ready when the attempts are used up
after_poll_optimistic(c, r) ==
    IF r.raised THEN Raise(c, "OSError")
    ELSE IF r.ret \/ c.polls >= max_attempts(c.launcher)
    THEN Finish([c EXCEPT !.grace = @ + 1], "True", None)
    ELSE c

\* one round of the readiness loop, c.polls counting this round
after_poll(c, r) ==
    IF r.raised THEN Raise(c, "OSError")
    ELSE IF r.ret THEN Finish([c EXCEPT !.grace = @ + 1], "True", None)
    ELSE IF c.polls >= max_attempts(c.launcher)
    THEN Finish(c, "False", "LaunchTimeout")
    ELSE c

\* for _ in range(n): time.sleep(1); if is_port_open(CDP_PORT): ... return True
Poll(self) ==
    /\ calls[self].pc = "poll"
    /\ \E e \in ConnectOutcomes :
         LET r == is_port_open(e)
             c == [calls[self] EXCEPT !.open = r.ret, !.polls = @ + 1,
                                      !.log = Append(@, "is_port_open")]
         IN calls' = [calls EXCEPT ![self] = after_poll(c, r)]
    /\ UNCHANGED <<envVars, procs, listener, next_pid, xvfb, lock>>

(***************************************************************************)
(* The environment.                                                        *)
(***************************************************************************)

\* a browser started with --remote-debugging-port begins to accept on it
BrowserBinds ==
    /\ listener = NoProc
    /\ \E p \in procs : p.cdp /\ listener' = p
    /\ UNCHANGED <<envVars, procs, next_pid, xvfb, lock, calls>>

\* a browser process ends by itself (a clean exit removes its lock file)
BrowserExits ==
    /\ \E p \in procs, clean \in BOOLEAN :
         /\ procs' = procs \ {p}
         /\ listener' = IF listener = p THEN NoProc ELSE listener
         /\ lock' = IF clean /\ p.datadir \in DataDirs
                    THEN [lock EXCEPT ![p.datadir] = FALSE] ELSE lock
    /\ UNCHANGED <<envVars, next_pid, xvfb, calls>>

\* the Xvfb server ends
XvfbExits ==
    /\ xvfb
    /\ xvfb' = FALSE
    /\ UNCHANGED <<envVars, procs, listener, next_pid, lock, calls>>

Next ==
    \/ \E self \in DOMAIN calls : Call(self)
    \/ \E self \in DOMAIN calls : Return(self)
    \/ \E self \in DOMAIN calls : Probe(self)
    \/ \E self \in DOMAIN calls : Find(self)
    \/ \E self \in DOMAIN calls : WakeScreen(self)
    \/ \E self \in DOMAIN calls : HasRealDisplay(self)
    \/ \E self \in DOMAIN calls : XvfbScan(self)
    \/ \E self \in DOMAIN calls : XvfbStart(self)
    \/ \E self \in DOMAIN calls : Kill(self)
    \/ \E self \in DOMAIN calls : Unlink(self)
    \/ \E self \in DOMAIN calls : BuildArgs(self)
    \/ \E self \in DOMAIN calls : Launch(self)
    \/ \E self \in DOMAIN calls : Poll(self)
    \/ BrowserBinds \/ BrowserExits \/ XvfbExits

Spec == Init /\ [][Next]_vars

TypeOK ==
    /\ is_mac \in BOOLEAN
    /\ listener \in procs \cup {NoProc}
    /\ \A self \in DOMAIN calls :
         /\ calls[self].polls <= max_attempts(calls[self].launcher)
         /\ calls[self].result \in {"pending", "True", "False", "raised"}

(***************************************************************************)
(* Vocabulary of the properties.                                           *)
(***************************************************************************)
InLog(c, ev) == \E i \in 1..Len(c.log) : c.log[i] = ev
LastEvent(c) == IF c.log = <<>> THEN None ELSE c.log[Len(c.log)]
IsPrefix(s, t) == Len(s) <= Len(t) /\ \A i \in 1..Len(s) : s[i] = t[i]
HasFlag(a) == \E i \in 1..Len(a) : a[i] = "--headless=new"

\* this step of caller self performed the event ev
StepAdds(self, ev) ==
    /\ Len(calls'[self].log) = Len(calls[self].log) + 1
    /\ LastEvent(calls'[self]) = ev

\* the processes, files and environment a launcher can touch are as before
SessionUntouched(self) ==
    /\ procs' = procs /\ listener' = listener /\ next_pid' = next_pid
    /\ xvfb' = xvfb /\ lock' = lock
    /\ calls'[self].DISPLAY = calls[self].DISPLAY

\* the events of a launch of chrome_utils on the virtual display it starts,
\* followed by n readiness polls
ScenarioLog(n) ==
    <<"is_port_open", "find_chrome", "wake_screen", "has_real_display",
      "pgrep", "Xvfb", "pkill", "unlink", "Popen">>
    \o [i \in 1..n |-> "is_port_open"]

(***************************************************************************)
(* Properties.                                                             *)
(***************************************************************************)

\* C1: when the first probe of a call reports the debug port open, the call
\* returns True in that very step, having done nothing but the probe: no
\* executable looked up, no display resolved, no process killed or started,
\* no lock file removed, os.environ as before.
C1_FastPathHasNoSideEffect ==
    [][\A self \in DOMAIN calls :
         (calls[self].pc = "probe" /\ StepAdds(self, "is_port_open")
            /\ calls'[self].open)
         => /\ calls'[self].pc = "done"
            /\ calls'[self].result = "True"
            /\ calls'[self].log = <<"is_port_open">>
            /\ calls'[self].chrome_bin = None
            /\ calls'[self].display = None
            /\ calls'[self].child = NoProc
            /\ SessionUntouched(self)]_vars

\* a second call in succession has returned True on the fast path
C1_Witness ==
    \E self \in DOMAIN calls :
        /\ calls[self].ncalls = 2 /\ calls[self].pc = "done"
        /\ calls[self].result = "True" /\ calls[self].log = <<"is_port_open">>

\* C2: in every launcher, a call whose readiness polls all fail ends with
\* LaunchTimeout after exactly 5 polls.
C2_TimeoutAfterFivePolls ==
    \A self \in DOMAIN calls :
        (calls[self].pc = "done" /\ InLog(calls[self], "Popen")
            /\ ~calls[self].open /\ calls[self].result # "raised")
        => /\ calls[self].error = "LaunchTimeout"
           /\ calls[self].polls = 5

\* C3: no call ends by an uncaught exception, whatever the external steps do.
C3_NeverRaises ==
    \A self \in DOMAIN calls : calls[self].result # "raised"

\* C4: in every launcher, a call that finds the port closed on a machine
\* where no browser executable can be located returns False with
\* ExecutableNotFound and has killed, started and removed nothing.
C4_NotFoundBeforeSideEffects ==
    \A self \in DOMAIN calls :
        (calls[self].pc = "done" /\ ~calls[self].open /\ find_chrome = None)
        => /\ calls[self].result = "False"
           /\ calls[self].error = "ExecutableNotFound"
           /\ ~InLog(calls[self], "pkill") /\ ~InLog(calls[self], "Xvfb")
           /\ ~InLog(calls[self], "unlink") /\ ~InLog(calls[self], "Popen")

\* C5: a probe never raises, answers True exactly when a process accepts the
\* connection on the debug port and False on a refusal or a timeout, and
\* leaves processes, files and environment as they were.
C5_ProbeNeverRaises ==
    [][\A self \in DOMAIN calls :
         StepAdds(self, "is_port_open")
         => /\ calls'[self].result # "raised"
            /\ calls'[self].open <=> (listener # NoProc)
            /\ SessionUntouched(self)]_vars

\* a readiness poll answered True after the first probe had answered False
C5_Witness ==
    \E self \in DOMAIN calls :
        /\ calls[self].pc = "done" /\ calls[self].open
        /\ calls[self].polls >= 1 /\ calls[self].result = "True"

\* C6: the argument list chrome_utils hands to Popen holds --headless=new if
\* and only if CHROME_HEADLESS is 1, true or yes (in any case of letters) or
\* the resolved display is :99; on a verified physical display without the
\* override it never does, on the virtual display it always does.
C6_HeadlessIffForcedOrVirtual ==
    \A self \in DOMAIN calls :
        (calls[self].launcher = "chrome_utils" /\ calls[self].pc = "launch")
        => LET c == calls[self]
               forced == c.CHROME_HEADLESS \in {"1", "true", "yes", "TRUE"}
           IN /\ HasFlag(c.args) <=> (forced \/ c.display = XVFB_DISPLAY)
              /\ (c.real /\ ~forced) => ~HasFlag(c.args)
              /\ (c.display = XVFB_DISPLAY) => HasFlag(c.args)

\* about to launch headless on the virtual display without the override
C6_Witness ==
    \E self \in DOMAIN calls :
        /\ calls[self].launcher = "chrome_utils" /\ calls[self].pc = "launch"
        /\ calls[self].display = XVFB_DISPLAY
        /\ calls[self].CHROME_HEADLESS = "0" /\ HasFlag(calls[self].args)

\* C7: right after chrome_utils has started the browser, no other instance of
\* the product it started is alive.
C7_KillLeavesNoEarlierInstance ==
    \A self \in DOMAIN calls :
        (calls[self].launcher = "chrome_utils" /\ LastEvent(calls[self]) = "Popen")
        => \A p \in procs : p.bin = calls[self].child.bin => p = calls[self].child

\* C8: a call of chrome_utils whose scan found no virtual display server goes
\* through probe, locate, resolve, start Xvfb, kill, unlink, launch, poll in
\* this order, launches headless, and when the second poll is the first to
\* find the port open it returns True after exactly 2 polls.
C8_VirtualDisplayScenario ==
    \A self \in DOMAIN calls :
        LET c == calls[self]
        IN (InLog(c, "Xvfb") \/ c.pc = "Xvfb")
           => /\ c.launcher = "chrome_utils"
              /\ IsPrefix(c.log, ScenarioLog(ReadyAttempts))
              /\ InLog(c, "Popen") => c.child_headless
              /\ (c.polls = 2 /\ c.open)
                 => /\ c.pc = "done" /\ c.result = "True"
                    /\ c.log = ScenarioLog(2)
              /\ (c.open /\ c.pc = "poll") => FALSE

\* the scenario has run to Ready on the second poll
C8_Witness ==
    \E self \in DOMAIN calls :
        /\ InLog(calls[self], "Xvfb") /\ calls[self].pc = "done"
        /\ calls[self].result = "True" /\ calls[self].polls = 2
        /\ calls[self].child_headless

\* C9: once the display has been resolved, either the declared display was
\* verified (it is set, is not :99, Xvfb is neither scanned for nor started,
\* os.environ keeps it and the browser is given it) or the resolver has gone
\* on to the virtual display.
C9_PhysicalOrFallThrough ==
    \A self \in DOMAIN calls :
        LET c == calls[self]
        IN InLog(c, "has_real_display")
           => \/ /\ c.real
                 /\ c.DISPLAY \notin {"", XVFB_DISPLAY} /\ c.display = c.DISPLAY
                 /\ ~InLog(c, "pgrep") /\ ~InLog(c, "Xvfb")
                 /\ c.pc = "launch" => c.env_display = c.DISPLAY
              \/ /\ ~c.real
                 /\ c.pc = "pgrep" \/ InLog(c, "pgrep")

\* C10: Xvfb is started only right after a scan that found none and never
\* while a server is running for :99; a scan that finds one makes the
\* resolver return the virtual display without starting another.
C10_NoSecondXvfb ==
    [][\A self \in DOMAIN calls :
         /\ StepAdds(self, "Xvfb")
            => ~xvfb /\ LastEvent(calls[self]) = "pgrep"
         /\ (StepAdds(self, "pgrep") /\ xvfb /\ calls'[self].result # "raised")
            => /\ calls'[self].display = XVFB_DISPLAY
               /\ calls'[self].pc = "kill"
               /\ xvfb' = xvfb]_vars

\* a later call found the server running and went on without starting one
C10_Witness ==
    \E self \in DOMAIN calls :
        /\ calls[self].ncalls = 2 /\ xvfb
        /\ calls[self].pc = "kill" /\ calls[self].display = XVFB_DISPLAY
        /\ InLog(calls[self], "pgrep") /\ ~InLog(calls[self], "Xvfb")

\* C11: when the virtual display is needed and the server could not be
\* started (the start command fails, or the process exits without serving
\* :99), the call fails with DisplayUnavailable; it then neither kills nor
\* starts a browser.
C11_DisplayUnavailable ==
    [][\A self \in DOMAIN calls :
         (calls[self].pc = "Xvfb" /\ calls'[self] # calls[self] /\ ~xvfb')
         => /\ calls'[self].pc = "done"
            /\ calls'[self].result = "False"
            /\ calls'[self].error = "DisplayUnavailable"]_vars

\* C12: the display a call decides on is the one the process was started
\* with, whatever an earlier call of the same process resolved: when a
\* physical display is declared, the resolver that has just run looked at
\* that display (os.environ["DISPLAY"] is still the declared value), so it
\* resolves Physical whenever the display answers.
C12_DecisionNotInherited ==
    \A self \in DOMAIN calls :
        (/\ LastEvent(calls[self]) = "has_real_display"
         /\ calls[self].declared \notin {"", XVFB_DISPLAY})
        => calls[self].DISPLAY = calls[self].declared

\* ---------------------------------------------------------------------
\* The scripts built on the launcher: one run of a script per process.

ScriptNames ==
    {"chrome_utils", "twpost", "twitter_actions", "twitter_search", "tw_xhr_test"}

\* the ensure_chrome_cdp a script calls: twpost has its own, twitter_actions
\* and twitter_search import the one of chrome_utils, tw_xhr_test calls none
script_launcher(s) ==
    CASE s = "twpost" -> "twpost"
      [] s = "tw_xhr_test" -> None
      [] OTHER -> "chrome_utils"

\* what the function of the script returns when it gives up
failure_value(s) ==
    IF s \in {"twitter_search", "tw_xhr_test"} THEN "None" ELSE "False"

\* `if success`, `if text`
Truthy(ret) == ret \in {"True", "text"}

\* the exit status of the process: sys.exit(0 if success else 1) in
\* chrome_utils, twpost and twitter_search; tw_xhr_test ends with
\* asyncio.run(main()); an uncaught exception ends the interpreter with 1;
\* twitter_actions has no entry point (-1)
exit_code(s, ret) ==
    CASE s = "twitter_actions" -> -1
      [] ret = "raised" -> 1
      [] s = "tw_xhr_test" -> 0
      [] OTHER -> IF Truthy(ret) THEN 0 ELSE 1

\* the script is over with the value `ret`; `fail` names the step that failed
Leave(sc, ret, fail) ==
    [sc EXCEPT !.pc = "exited", !.ret = ret, !.fail = fail,
               !.exit = exit_code(sc.name, ret)]

\* the script starts: twpost's main refuses an empty text, then the script
\* calls its launcher; tw_xhr_test goes straight to connect_over_cdp
Run(self) ==
    /\ scripts[self].pc = "idle"
    /\ calls[self].pc = "idle"
    /\ calls[self].ncalls = 0
    /\ \E s \in ScriptNames, text_ok \in BOOLEAN :
         LET sc == [scripts[self] EXCEPT !.name = s]
         IN CASE s = "twpost" /\ ~text_ok ->
                   /\ scripts' = [scripts EXCEPT ![self] =
                         [sc EXCEPT !.pc = "exited", !.fail = "input", !.exit = 1]]
                   /\ UNCHANGED calls
              [] s # "twpost" /\ ~text_ok -> FALSE
              [] script_launcher(s) = None ->
                   /\ scripts' = [scripts EXCEPT ![self] = [sc EXCEPT !.pc = "attach"]]
                   /\ UNCHANGED calls
              [] OTHER ->
                   /\ scripts' = [scripts EXCEPT ![self] = [sc EXCEPT !.pc = "ensure"]]
                   /\ calls' = [calls EXCEPT ![self] =
                         Enter(calls[self], script_launcher(s))]
    /\ UNCHANGED <<hostVars, extractVars, procs, listener, next_pid, xvfb, lock>>

\* `if not ensure_chrome_cdp(): return False` (None in twitter_search);
\* chrome_utils' main has nothing else to do; like_tweet checks the URL
AfterEnsure(self) ==
    /\ scripts[self].pc = "ensure"
    /\ calls[self].pc = "done"
    /\ LET sc == scripts[self]
           s == sc.name
           r == calls[self].result
       IN \E url_ok \in BOOLEAN :
            scripts' = [scripts EXCEPT ![self] =
               CASE r = "raised" -> Leave(sc, "raised", "launch")
                 [] r = "False" -> Leave(sc, failure_value(s), "launch")
                 [] s = "chrome_utils" -> Leave(sc, "True", None)
                 [] s = "twitter_actions" /\ ~url_ok -> Leave(sc, "False", "input")
                 [] OTHER -> [sc EXCEPT !.pc = "attach"]]
    /\ UNCHANGED <<hostVars, extractVars, launcherVars>>

\* browser = connect_over_cdp(CDP_URL) inside try/except: the scripts return
\* their failure value, tw_xhr_test's main returns
Attach(self) ==
    /\ scripts[self].pc = "attach"
    /\ LET sc == scripts[self]
       IN scripts' = [scripts EXCEPT ![self] =
            IF listener # NoProc /\ listener.cdp
            THEN [sc EXCEPT !.attach = "ok", !.pc = "context"]
            ELSE Leave([sc EXCEPT !.attach = "failed"],
                       failure_value(sc.name), "attach")]
    /\ UNCHANGED <<hostVars, extractVars, launcherVars>>

\* context = browser.contexts[0]; page = context.new_page(): an IndexError
\* without a context, except in tw_xhr_test, which looks first and returns
Context(self) ==
    /\ scripts[self].pc = "context"
    /\ LET sc == scripts[self]
       IN \E has_context \in BOOLEAN :
            scripts' = [scripts EXCEPT ![self] =
               CASE has_context -> [sc EXCEPT !.page = TRUE, !.pc = "act"]
                 [] sc.name = "tw_xhr_test" -> Leave(sc, "None", "context")
                 [] OTHER -> Leave(sc, "raised", "context")]
    /\ UNCHANGED <<hostVars, extractVars, launcherVars>>

\* goto and the steps on the page, inside try/except: True or the text on
\* success, the failure value on a timeout or when nothing was extracted;
\* tw_xhr_test goes on after a failed goto and returns at the end of main
Act(self) ==
    /\ scripts[self].pc = "act"
    /\ LET sc == scripts[self]
           s == sc.name
       IN \E outcome \in {"done", "timeout", "nothing"} :
            scripts' = [scripts EXCEPT ![self] =
               CASE outcome = "timeout" -> Leave(sc, failure_value(s), "navigation")
                 [] outcome = "nothing" -> Leave(sc, failure_value(s), "extraction")
                 [] s = "twitter_search" -> Leave(sc, "text", None)
                 [] s = "tw_xhr_test" -> Leave(sc, "None", None)
                 [] OTHER -> Leave(sc, "True", None)]
    /\ UNCHANGED <<hostVars, extractVars, launcherVars>>

NextScript ==
    \/ \E self \in DOMAIN calls : Run(self)
    \/ \E self \in DOMAIN calls : Probe(self)
    \/ \E self \in DOMAIN calls : Find(self)
    \/ \E self \in DOMAIN calls : WakeScreen(self)
    \/ \E self \in DOMAIN calls : HasRealDisplay(self)
    \/ \E self \in DOMAIN calls : XvfbScan(self)
    \/ \E self \in DOMAIN calls : XvfbStart(self)
    \/ \E self \in DOMAIN calls : Kill(self)
    \/ \E self \in DOMAIN calls : Unlink(self)
    \/ \E self \in DOMAIN calls : BuildArgs(self)
    \/ \E self \in DOMAIN calls : Launch(self)
    \/ \E self \in DOMAIN calls : Poll(self)
    \/ \E self \in DOMAIN calls : AfterEnsure(self)
    \/ \E self \in DOMAIN calls : Attach(self)
    \/ \E self \in DOMAIN calls : Context(self)
    \/ \E self \in DOMAIN calls : Act(self)
    \/ BrowserBinds \/ BrowserExits \/ XvfbExits

SpecScript == Init /\ [][NextScript]_vars

\* C13: a script attaches (or tries to), and opens a page, only after its
\* launcher returned True in this run; when the launcher failed the script
\* is over with its failure value and never tried to attach.
C13_AttachOnlyAfterReady ==
    \A self \in DOMAIN scripts :
        LET sc == scripts[self]
        IN /\ (sc.attach # "no" \/ sc.page \/ sc.pc \in {"attach", "context", "act"})
              => calls[self].result = "True"
           /\ (sc.pc = "ensure" /\ calls[self].result = "False") =>
                 (sc.attach = "no" /\ ~sc.page)
           /\ (sc.pc = "exited" /\ sc.fail = "launch")
              => (sc.attach = "no" /\ ~sc.page /\ ~Truthy(sc.ret))

\* C14: an entry point exits with 0 exactly when nothing failed, and with 1
\* when the launcher, the attachment, the navigation or a required
\* extraction failed.
C14_ExitCode ==
    \A self \in DOMAIN scripts :
        LET sc == scripts[self]
        IN (sc.pc = "exited" /\ sc.name # "twitter_actions")
           => /\ sc.exit \in {0, 1}
              /\ sc.exit = 0 <=> sc.fail = None

\* ---------------------------------------------------------------------
\* The extractor at work.

\* a machine on which no launcher runs
Quiet ==
    /\ is_mac = FALSE
    /\ mac_exists = FALSE
    /\ on_path = {}
    /\ procs = {}
    /\ listener = NoProc
    /\ next_pid = 1
    /\ xvfb = FALSE
    /\ lock = [d \in DataDirs |-> FALSE]
    /\ calls = [c \in {1} |-> IdleCall("")]
    /\ scripts = [c \in {1} |-> NoScript]

\* tweets = await parse_twitter_response(p), `r` being what the call gives
Parsed(p, r) ==
    \E i \in {BodyIndex(p)} :
       /\ response_body' = p
       /\ tweets' = r.tweets
       /\ returned' = [raised |-> r.raised, value |-> r.value]
       /\ first' = IF i = 0 THEN first
                   ELSE [first EXCEPT ![i] =
                           [n |-> @.n + 1,
                            value |-> IF @.n = 0 THEN r.value ELSE @.value]]
       /\ nparsed' = nparsed + 1

\* the function applied to the body at hand
Extract ==
    /\ nparsed = 0
    /\ \E r \in {parse_twitter_response(response_body, tweets)} :
         Parsed(response_body, r)
    /\ UNCHANGED <<hostVars, scripts, launcherVars, captured_tweets, nexchanges,
                   exchange>>

\* the body at hand is any of the documents that are no payload, or any
\* payload with up to MaxEntries well-formed tweets
InitExtract ==
    /\ Quiet
    /\ \/ \E top \in Tops : InitExtractor(Plain(top))
       \/ \E n \in Nests, g \in SeqsUpTo(Texts, MaxEntries),
             d \in {NoDefect} \cup EntryDefects \cup InstrDefects,
             a \in 0..(MaxEntries + 1), c \in -1..(MaxEntries + 1) :
            /\ WellFormed(Payload(n, g, d, a, c))
            /\ InitExtractor(Payload(n, g, d, a, c))

SpecExtract == InitExtract /\ [][Extract]_vars

\* a caller applies the function to one of the bodies
ParseCall ==
    /\ nparsed < MaxParses
    /\ \E p \in {StreamBodies[i] : i \in 1..Len(StreamBodies)} :
         \E r \in {parse_twitter_response(p, tweets)} : Parsed(p, r)
    /\ UNCHANGED <<hostVars, scripts, launcherVars, captured_tweets, nexchanges,
                   exchange>>

\* the handler is over without a call of parse_twitter_response: the URL is
\* not captured (content type and text are not read), the content type is
\* not JSON (the text is not read), or response.text() raised (text = 0)
Ignored(url, content_type, text) ==
    /\ exchange' = [url |-> url, content_type |-> content_type, text |-> text]
    /\ UNCHANGED <<response_body, tweets, returned, first, nparsed,
                   captured_tweets>>

\* lines 124-128: the body parsed, the accumulator extended when the list
\* is not empty
Captured(url, content_type, text, r) ==
    /\ exchange' = [url |-> url, content_type |-> content_type, text |-> text]
    /\ Parsed(StreamBodies[text], r)
    /\ captured_tweets' =
         IF ~r.raised /\ r.value # <<>>
         THEN list_extend(captured_tweets, r.value)
         ELSE captured_tweets

\* handle_response(response): the returns of lines 116 and 119, the failure
\* of response.text() caught at line 129, and the body parsed
HandleResponse ==
    /\ nexchanges < MaxExchanges
    /\ nexchanges' = nexchanges + 1
    /\ \/ \E url \in Urls : ~should_capture(url) /\ Ignored(url, None, -1)
       \/ \E url \in Urls, content_type \in ContentTypes :
            /\ should_capture(url) /\ ~is_json(content_type)
            /\ Ignored(url, content_type, -1)
       \/ \E url \in Urls, content_type \in ContentTypes :
            /\ should_capture(url) /\ is_json(content_type)
            /\ Ignored(url, content_type, 0)
       \/ \E text \in 1..Len(StreamBodies) :
          \E r \in {parse_twitter_response(StreamBodies[text], tweets)} :
          \E url \in Urls, content_type \in ContentTypes :
            /\ should_capture(url) /\ is_json(content_type)
            /\ Captured(url, content_type, text, r)
    /\ UNCHANGED <<hostVars, scripts, launcherVars>>

InitStream == Quiet /\ InitExtractor(Plain("no_data"))

NextStream == ParseCall \/ HandleResponse

SpecStream == InitStream /\ [][NextStream]_vars

\* the call has been made on a timeline payload
Extracted == nparsed > 0 /\ response_body.top = "payload"

\* the record the extractor is to give for a complete entry
Record(e) ==
    [text |-> Leaf(Str(e.text)), user_name |-> Leaf(Str("Ann")),
     screen_name |-> Leaf(Str("ann")), created_at |-> Leaf(Str("Mon Nov 02")),
     favorite_count |-> Leaf(Num("5")), retweet_count |-> Leaf(Num("2")),
     id |-> Leaf(Str(e.id))]

\* C15: the function is total: whatever the body, no exception leaves it;
\* a malformed body, a document that is not a mapping, one without `data`
\* and one whose `data` is not a mapping give the empty list.
C15_ExtractIsTotal ==
    nparsed > 0 =>
        /\ ~returned.raised
        /\ response_body.top \in Tops => returned.value = <<>>

C15_Witness ==
    /\ nparsed > 0
    /\ response_body.top = "data_null"
    /\ returned.value = <<>>

\* C16: a payload whose only entry is a complete tweet gives exactly the one
\* record with its text; a payload whose only entry has an empty or no
\* full_text gives no record.
C16_RecordIffText ==
    (/\ Extracted
     /\ response_body.defect \notin InstrDefects
     /\ Len(EntryList(response_body)) = 1)
    => LET e == EntryList(response_body)[1]
       IN /\ e.kind = "good" => returned.value = <<Record(e)>>
          /\ e.kind \in {"empty_text", "no_full_text"} => returned.value = <<>>

C16_Witness ==
    /\ Extracted
    /\ Len(EntryList(response_body)) = 1
    /\ EntryList(response_body)[1].kind = "empty_text"
    /\ returned.value = <<>>

\* the payload without its defective entry or instruction
Without(p) ==
    [p EXCEPT !.defect = NoDefect, !.at = 0,
              !.cut = CASE p.defect \in InstrDefects -> p.at - 1
                        [] p.cut >= p.at -> p.cut - 1
                        [] OTHER -> p.cut]

\* C17: an entry or instruction that lacks a key contributes no record and
\* does not stop the traversal: the list returned is the one returned for
\* the payload without it.
C17_MissingKeyIsSkipped ==
    (/\ Extracted
     /\ response_body.defect \in MissingKeyEntries \cup MissingKeyInstructions)
    => returned.value = parse_twitter_response(Without(response_body), <<>>).value

\* C18: a payload nested under home_timeline_urt and the same payload
\* nested under timeline_urt give equal lists.
C18_ContainerNameIrrelevant ==
    (Extracted /\ response_body.nest = "home_timeline_urt")
    => returned.value =
         parse_twitter_response([response_body EXCEPT !.nest = "timeline_urt"],
                                <<>>).value

C18_Witness ==
    /\ Extracted
    /\ response_body.nest = "home_timeline_urt"
    /\ Len(returned.value) >= 2

\* where the entry with id_str `id` stands in the payload, 0 when nowhere
Position(p, id) ==
    LET es == EntryList(p)
    IN IF \E j \in 1..Len(es) : es[j].id = id
       THEN CHOOSE j \in 1..Len(es) : es[j].id = id
       ELSE 0

\* C19: the records come in the order of the payload: every record is the
\* one of an entry, and a record that comes later in the list belongs to an
\* entry that comes later in the payload (none moved, none twice).
C19_PayloadOrder ==
    Extracted =>
        LET p == response_body
            out == returned.value
        IN /\ \A i \in 1..Len(out) :
                /\ Position(p, out[i].id.v) > 0
                /\ out[i].text.v = EntryList(p)[Position(p, out[i].id.v)].text
           /\ \A i, k \in 1..Len(out) :
                i < k => Position(p, out[i].id.v) < Position(p, out[k].id.v)

C19_Witness ==
    /\ Extracted
    /\ response_body.cut = 1
    /\ Len(returned.value) = 3
    /\ returned.value[1].text.v = "world"
    /\ returned.value[2].text.v = "hello"

\* C20: a call on a body returns the list the first call on that body
\* returned, whatever was called in between, and a call of the function
\* alone leaves captured_tweets as it is.
C20_NoSharedState ==
    [][nparsed' = nparsed + 1 =>
         /\ LET i == BodyIndex(response_body')
            IN first[i].n > 0 => returned'.value = first[i].value
         /\ nexchanges' = nexchanges => captured_tweets' = captured_tweets]_vars

C20_Witness ==
    /\ response_body = StreamBodies[3]
    /\ first[3].n = 2
    /\ first[5].n = 1
    /\ Len(returned.value) = 2
    /\ captured_tweets = <<>>

\* the response last handled came from a timeline endpoint, was declared
\* JSON and its text could be read
Relevant(x) == should_capture(x.url) /\ is_json(x.content_type) /\ x.text > 0

\* the list of records each body of the stream holds
Extracts ==
    [i \in 1..Len(StreamBodies) |->
        parse_twitter_response(StreamBodies[i], <<>>).value]

\* C21: every response handled leaves the accumulator with what it held, in
\* the same order, followed by nothing when the response is irrelevant, not
\* JSON, unreadable or malformed, and by exactly the records extracted from
\* its body otherwise; this holds for the response that follows a failing
\* one as for any other.
C21_AccumulatorOnlyAppends ==
    [][nexchanges' = nexchanges + 1 =>
         LET x == exchange'
         IN /\ IsPrefix(captured_tweets, captured_tweets')
            /\ ~Relevant(x) => captured_tweets' = captured_tweets
            /\ Relevant(x) =>
                 /\ captured_tweets' = captured_tweets \o Extracts[x.text]
                 /\ StreamBodies[x.text].top \in Tops
                      => captured_tweets' = captured_tweets]_vars

\* a malformed response was handled first, then one with two tweets
C21_Witness ==
    /\ nexchanges = 2 /\ nparsed = 2
    /\ first[1].n = 1 /\ first[3].n = 1
    /\ exchange.text = 3
    /\ Len(captured_tweets) = 2

\* C22: in every launcher the browser is started right after the kill and
\* the removal of the lock file, in this order, so that the step that starts
\* it finds no lock file in the profile directory the browser is given.
C22_LockRemovedBeforeLaunch ==
    [][\A self \in DOMAIN calls :
         StepAdds(self, "Popen")
         => LET c == calls[self]
                n == Len(c.log)
            IN /\ n >= 2 /\ c.log[n - 1] = "pkill" /\ c.log[n] = "unlink"
               /\ ~lock[data_dir(c.launcher)]]_vars

\* ---------------------------------------------------------------------
\* Two processes call ensure_chrome_cdp at the same time.

\* both calls have been entered on a Linux machine with Chrome installed and
\* no browser running; the calls move in any interleaving
InitRace ==
    /\ is_mac = FALSE
    /\ mac_exists = FALSE
    /\ on_path = {"google-chrome"}
    /\ procs = {}
    /\ listener = NoProc
    /\ next_pid = 1
    /\ xvfb \in BOOLEAN
    /\ lock = [d \in DataDirs |-> FALSE]
    /\ \E d \in Displays, l \in Launchers :
         calls = [c \in {1, 2} |->
                    Enter(IdleCall(d), IF c = 1 THEN "chrome_utils" ELSE l)]
    /\ scripts = [c \in {1, 2} |-> NoScript]
    /\ InitExtractor(Plain("no_data"))

NextRace ==
    \/ \E self \in DOMAIN calls : Probe(self)
    \/ \E self \in DOMAIN calls : Find(self)
    \/ \E self \in DOMAIN calls : WakeScreen(self)
    \/ \E self \in DOMAIN calls : HasRealDisplay(self)
    \/ \E self \in DOMAIN calls : XvfbScan(self)
    \/ \E self \in DOMAIN calls : XvfbStart(self)
    \/ \E self \in DOMAIN calls : Kill(self)
    \/ \E self \in DOMAIN calls : Unlink(self)
    \/ \E self \in DOMAIN calls : BuildArgs(self)
    \/ \E self \in DOMAIN calls : Launch(self)
    \/ \E self \in DOMAIN calls : Poll(self)
    \/ BrowserBinds

SpecRace == InitRace /\ [][NextRace]_vars

\* C23: nothing keeps two calls apart: the kill step of a call ends every
\* browser its pattern matches, the one the other call has started and may
\* have been told is ready included, and takes the debug port from it.
C23_KillEndsTheOthersBrowser ==
    [][\A self, other \in DOMAIN calls :
         (/\ self # other
          /\ StepAdds(self, "pkill")
          /\ calls[other].child \in procs
          /\ Matches(kill_pattern(calls[self].launcher), calls[other].child))
         => /\ calls[other].child \notin procs'
            /\ listener = calls[other].child => listener' = NoProc]_vars

\* both calls found the port closed and went through kill and launch; the
\* first was told True for its browser, which the kill of the second ended
C23_Witness ==
    /\ calls[1].pc = "done" /\ calls[1].result = "True"
    /\ InLog(calls[1], "Popen") /\ InLog(calls[2], "Popen")
    /\ calls[1].child.pid < calls[2].child.pid
    /\ calls[1].child \notin procs
    /\ calls[2].child \in procs

\* C24: the poll that finds the port open is the last step of the call: it
\* is one of the polls 1..max_attempts, the grace delay is waited once and
\* the call returns True; a call that has returned probes no more, and no
\* call waits the grace delay without such a poll or more than once.
C24_GateStopsAtFirstOpenPoll ==
    [][\A self \in DOMAIN calls :
         /\ (calls[self].pc = "poll" /\ StepAdds(self, "is_port_open")
                /\ calls'[self].open)
            => /\ calls'[self].pc = "done"
               /\ calls'[self].result = "True"
               /\ calls'[self].polls = calls[self].polls + 1
               /\ calls'[self].polls \in 1..max_attempts(calls[self].launcher)
               /\ calls[self].grace = 0 /\ calls'[self].grace = 1
         /\ calls[self].pc = "done" => ~StepAdds(self, "is_port_open")
         /\ calls'[self].grace # calls[self].grace
            => \/ calls'[self].pc = "idle"
               \/ calls[self].pc = "poll" /\ calls'[self].open]_vars

\* the last of the five polls of chrome_utils was the first to find the
\* port open
C24_Witness ==
    \E self \in DOMAIN calls :
        /\ calls[self].pc = "done" /\ calls[self].result = "True"
        /\ calls[self].launcher = "chrome_utils"
        /\ calls[self].polls = ReadyAttempts /\ calls[self].grace = 1

\* the number of times ev stands in the log of the call
Count(c, ev) == Cardinality({i \in 1..Len(c.log) : c.log[i] = ev})

\* C25: a call is over after a bounded number of steps, of which at most
\* one first probe and max_attempts = 5 readiness polls, and it is over with
\* a result: True, or False for one of the failures.
C25_EndsWithResultWithinBound ==
    \A self \in DOMAIN calls :
        LET c == calls[self]
        IN /\ Count(c, "is_port_open") <= 1 + ReadyAttempts
           /\ c.polls <= ReadyAttempts
           /\ Len(c.log) <= Len(ScenarioLog(ReadyAttempts))
           /\ c.pc = "done" => c.result \in {"True", "False"}

\* C26: a call kills at most once, starts at most one browser and at most
\* one Xvfb server; a call that ran into LaunchTimeout is over, has returned
\* False to its caller, and has killed once and launched once.
C26_OneKillOneLaunch ==
    \A self \in DOMAIN calls :
        LET c == calls[self]
        IN /\ Count(c, "pkill") <= 1
           /\ Count(c, "Popen") <= 1
           /\ Count(c, "Xvfb") <= 1
           /\ c.child # NoProc => c.child.pid = next_pid - 1
           /\ c.error = "LaunchTimeout"
              => /\ c.pc = "done" /\ c.result = "False"
                 /\ c.polls = max_attempts(c.launcher)
                 /\ Count(c, "pkill") = 1 /\ Count(c, "Popen") = 1

\* a call that started Xvfb and the browser has timed out
C26_Witness ==
    \E self \in DOMAIN calls :
        /\ calls[self].error = "LaunchTimeout"
        /\ Count(calls[self], "Xvfb") = 1
        /\ calls[self].child # NoProc

\* C29: in both launchers, the step by which a call comes to return True is
\* a probe of that call, made while a process accepts connections on the
\* debug port, that reported the port open; a call all of whose probes
\* reported it closed does not return True.
C29_ReadyOnlyAfterOpenProbe ==
    [][\A self \in DOMAIN calls :
         (calls[self].result # "True" /\ calls'[self].result = "True")
         => /\ calls[self].pc \in {"probe", "poll"}
            /\ StepAdds(self, "is_port_open")
            /\ calls'[self].open
            /\ listener # NoProc]_vars

\* twpost returned True on the last of its three polls
C29_Witness ==
    \E self \in DOMAIN calls :
        /\ calls[self].launcher = "twpost" /\ calls[self].result = "True"
        /\ calls[self].polls = TwpostAttempts /\ calls[self].open

\* C27: a value that holds both home_timeline_urt and timeline_urt gives the
\* records of home_timeline_urt alone, whatever that container holds: those
\* of the payload when the payload is under home_timeline_urt, none when
\* home_timeline_urt is an empty object and the payload is under timeline_urt.
C27_FirstNameWins ==
    (Extracted /\ response_body.nest \in {"both", "home_empty"})
    => returned.value =
         IF response_body.nest = "both"
         THEN parse_twitter_response(
                  [response_body EXCEPT !.nest = "home_timeline_urt"], <<>>).value
         ELSE <<>>

\* the entries that pass the four tests of the chain and have a text: the
\* complete ones and those that lack a part of the author path
WithText == {"good", "no_core", "no_user_results", "no_user_result", "no_user_legacy"}
PassesWithText(e) == e.kind \in WithText

\* the record of such an entry: text, date, counts and id of its legacy
\* object, the names of the legacy object of its user result, "" without one
ChainRecord(e) ==
    IF e.kind = "good" THEN Record(e)
    ELSE [Record(e) EXCEPT !.user_name = Leaf(Str("")),
                           !.screen_name = Leaf(Str(""))]

\* one record for each of them, in the order of the payload
Emitted(p) ==
    LET es == SelectSeq(EntryList(p), PassesWithText)
    IN [i \in 1..Len(es) |-> ChainRecord(es[i])]

\* C28 as stated: the list returned holds exactly one record for each entry
\* that stands in a TimelineAddEntries instruction, is a TimelineTimelineItem
\* of item type TimelineTweet with a result of __typename Tweet and has a
\* non-empty text, and no other record.
C28_ChainDecides ==
    Extracted => returned.value = Emitted(response_body)

\* C28 amended: the same, unless the traversal fails on a value that is not
\* of the type expected at its place (here an entry whose content is null):
\* the list returned is then empty.
C28_ChainDecidesOrEmpty ==
    Extracted =>
        returned.value = IF response_body.defect = "null_content" THEN <<>>
                         ELSE Emitted(response_body)

\* a tombstone between two tweets: two records
C28_Witness ==
    /\ Extracted
    /\ response_body.defect = "tombstone" /\ response_body.at = 2
    /\ Len(response_body.good) = 2
    /\ Len(returned.value) = 2

====
